---- MODULE Spec2Model ----
(***************************************************************************)
(* Model of the Logicbone board support of LUNA:                           *)
(*   luna/gateware/platform/core.py      LUNAPlatform.request_optional     *)
(*   luna/gateware/platform/logicbone.py LogicboneDomainGenerator,         *)
(*                                       LogicbonePlatform                 *)
(* Three independent leaves, each with its own next-state relation:        *)
(*   SpecPlatform   the resource table and request / request_optional      *)
(*   SpecToolchain  toolchain_prepare and toolchain_program                *)
(*   SpecClock      the EHXPLLL instance and the combinational wiring      *)
(***************************************************************************)
EXTENDS Integers, Sequences, FiniteSets, TLC

VARIABLES
    \* ---- platform (core.py, logicbone.py resources) ----
    added,          \* how many records of the resource table are registered
    requested,      \* ResourceManager._requested: keys already handed out
    call,           \* arguments of the last request_optional call
    outcome,        \* how the last request_optional call ended
    logged,         \* log records emitted by the last request_optional call
    \* ---- toolchain hooks (logicbone.py 220-228) ----
    environ,        \* os.environ restricted to DFU_UTIL: <<>> or <<value>>
    tcCall,         \* the last toolchain hook called, with its arguments
    tcOutcome,      \* how the last toolchain hook ended
    parentCalls,    \* keyword arguments super().toolchain_prepare received
    spawned,        \* argv of every process started by the last hook call
    \* ---- clock domain generator (logicbone.py 35-135) ----
    vco,            \* VCO cycles since power-up, modulo the pattern length
    locked,         \* the PLL's LOCK output
    pins,           \* levels of the PLL pins CLKI, CLKOP, CLKOS, CLKOS2, CLKOS3
    clk,            \* ClockSignal of each domain
    rst,            \* ResetSignal of each domain
    window,         \* VCO cycles measured since lock (one microsecond at most)
    edges           \* rising edges seen on each PLL pin inside the window

platformVars  == <<added, requested, call, outcome, logged>>
toolchainVars == <<environ, tcCall, tcOutcome, parentCalls, spawned>>
clockVars     == <<vco, locked, pins, clk, rst, window, edges>>
vars == <<added, requested, call, outcome, logged,
          environ, tcCall, tcOutcome, parentCalls, spawned,
          vco, locked, pins, clk, rst, window, edges>>

(***************************************************************************)
(* Bounds of the model.                                                    *)
(***************************************************************************)
\* request_optional is tried with resource numbers 0 .. MaxNumber
MaxNumber == 1
\* the flashing utility exits with a status in 0 .. MaxExitStatus
MaxExitStatus == 2

(***************************************************************************)
(* The resource table, logicbone.py 150-205, as (name, number) keys in     *)
(* table order.  LEDResources, SwitchResources, SPIFlashResources and      *)
(* SDCardResources are expanded to the records they return.                *)
(***************************************************************************)
resources_DuplicateKey ==
    << <<"rst", 0>>, <<"refclk", 0>>,
       <<"usb", 0>>, <<"usb", 0>>,
       <<"led", 0>>, <<"led", 1>>, <<"led", 2>>, <<"led", 3>>,
       <<"switch", 0>>,
       <<"spi_flash_1x", 0>>, <<"spi_flash_2x", 0>>, <<"spi_flash_4x", 0>>,
       <<"sd_card_1bit", 0>>, <<"sd_card_4bit", 0>>, <<"sd_card_spi", 0>>,
       <<"eth_clk125", 0>>, <<"eth_rgmii", 0>>, <<"ddr3", 0>> >>

resources ==
    << <<"rst", 0>>, <<"refclk", 0>>,
       <<"usb", 0>>, <<"usb", 1>>,
       <<"led", 0>>, <<"led", 1>>, <<"led", 2>>, <<"led", 3>>,
       <<"switch", 0>>,
       <<"spi_flash_1x", 0>>, <<"spi_flash_2x", 0>>, <<"spi_flash_4x", 0>>,
       <<"sd_card_1bit", 0>>, <<"sd_card_4bit", 0>>, <<"sd_card_spi", 0>>,
       <<"eth_clk125", 0>>, <<"eth_rgmii", 0>>, <<"ddr3", 0>> >>

\* The platform has a resource with this name and number.
HasResource(name, number) ==
    \E i \in DOMAIN resources : resources[i] = <<name, number>>

\* Names and default values request_optional is called with.  "user_io" is
\* a resource other LUNA boards have and this one lacks.
RequestNames  == {"led", "usb", "user_io"}
RequestNumbers == 0 .. MaxNumber
DefaultValues == {"NullPin", "Signal"}

\* What self.request(name, number) does (core.py 36): the resource manager
\* raises ResourceError for a resource the platform lacks and for one that
\* has already been requested, and otherwise hands out the resource's pins.
request(req, name, number) ==
    IF ~HasResource(name, number)
        THEN [kind |-> "raise", value |-> <<"ResourceError", "not present">>]
    ELSE IF <<name, number>> \in req
        THEN [kind |-> "raise", value |-> <<"ResourceError", "already requested">>]
    ELSE [kind |-> "return", value |-> <<"pins", name, number>>]

\* The attribute of the logging module the handler picks (core.py 38).
LogAttr(expected) == IF expected THEN "warnings" ELSE "debug"

\* What the attributes of Python's logging module are: debug and warning
\* are the module-level logging functions; warnings is the standard warnings
\* module, which logging imports, and a module cannot be called.
LogLevel(attr) ==
    CASE attr = "debug"   -> "DEBUG"
      [] attr = "warning" -> "WARNING"
      [] OTHER            -> "not callable"

\* The message of core.py 39.
SkipMessage(name, number) == <<"Skipping resource", name, number>>

\* The except clause of request_optional (core.py 37-40), entered with the
\* ResourceError caught: the call's outcome and the log records it emits.
HandleResourceError(name, number, default, expected) ==
    LET log == LogAttr(expected) IN
    IF LogLevel(log) = "not callable"
        THEN [outcome |-> [kind |-> "raise",
                           value |-> <<"TypeError", "'module' object is not callable">>],
              logged  |-> << >>]
        ELSE [outcome |-> [kind |-> "return", value |-> <<"default", default>>],
              logged  |-> << [level |-> LogLevel(log),
                              message |-> SkipMessage(name, number)] >>]

\* Constructing the platform registers the records of the resource table
\* one after the other, in table order.
AddResource ==
    /\ added < Len(resources)
    /\ added' = added + 1
    /\ UNCHANGED <<requested, call, outcome, logged, toolchainVars, clockVars>>

\* LUNAPlatform.request_optional (core.py 18-40), on the constructed
\* platform.
RequestOptional(name, number, default, expected) ==
    LET r == request(requested, name, number) IN
    /\ added = Len(resources)
    /\ added' = added
    /\ call' = [name |-> name, number |-> number,
                default |-> default, expected |-> expected,
                fresh |-> <<name, number>> \notin requested]
    /\ IF r.kind = "return"
          THEN /\ requested' = requested \cup {<<name, number>>}
               /\ outcome' = r
               /\ logged' = << >>
          ELSE IF r.value[1] = "ResourceError"
          THEN LET h == HandleResourceError(name, number, default, expected) IN
               /\ requested' = requested
               /\ outcome' = h.outcome
               /\ logged' = h.logged
          ELSE /\ requested' = requested
               /\ outcome' = r
               /\ logged' = << >>
    /\ UNCHANGED <<toolchainVars, clockVars>>

NoCall == [name |-> "", number |-> 0, default |-> "", expected |-> FALSE,
           fresh |-> FALSE]
NoOutcome == [kind |-> "none", value |-> << >>]

InitPlatform ==
    /\ added = 0
    /\ requested = {}
    /\ call = NoCall
    /\ outcome = NoOutcome
    /\ logged = << >>

NextPlatform ==
    \/ AddResource
    \/ \E name \in RequestNames, number \in RequestNumbers,
          default \in DefaultValues, expected \in BOOLEAN :
         RequestOptional(name, number, default, expected)

(***************************************************************************)
(* The toolchain hooks, logicbone.py 220-228.                              *)
(***************************************************************************)
\* Keyword arguments are dictionaries: functions from a set of keys.
KwargKeys   == {"ecppack_opts", "nextpnr_opts", "synth_opts"}
KwargValues == {"--compress", "--seed 1"}
EmptyDict   == [k \in {} |-> ""]

\* dict(ecppack_opts=...) of logicbone.py 221.
DefaultOverrides ==
    [k \in {"ecppack_opts"} |-> "--compress --spimode qspi --freq 38.8"]

\* d.update(other): other's items replace d's.
DictUpdate(d, other) ==
    [k \in DOMAIN d \cup DOMAIN other |->
        IF k \in DOMAIN other THEN other[k] ELSE d[k]]

\* f(**a, **b): Python raises TypeError when a keyword is given twice, and
\* otherwise the callee receives the union.
CallWithKwargs(a, b) ==
    IF DOMAIN a \cap DOMAIN b # {}
        THEN [kind |-> "raise",
              value |-> <<"TypeError", "got multiple values for keyword argument">>,
              received |-> << >>]
        ELSE [kind |-> "return",
              value |-> <<"build plan">>,
              received |-> << DictUpdate(a, b) >>]

\* LogicbonePlatform.toolchain_prepare (logicbone.py 220-223).
ToolchainPrepare(name, kwargs) ==
    LET overrides == DictUpdate(DefaultOverrides, kwargs)
        r == CallWithKwargs(overrides, kwargs)
    IN
    /\ tcCall' = [op |-> "toolchain_prepare", name |-> name,
                  kwargs |-> kwargs, status |-> 0, environ |-> environ]
    /\ parentCalls' = r.received
    /\ tcOutcome' = [kind |-> r.kind, value |-> r.value]
    /\ spawned' = << >>
    /\ UNCHANGED <<environ, platformVars, clockVars>>

\* Design names, and what "{}.bit".format(name) and products.extract make
\* of them: the name of the bitstream among the build products, and the
\* temporary file it is extracted to.
DesignNames == {"top", "blinky"}
BitName(name) ==
    CASE name = "top"    -> "top.bit"
      [] name = "blinky" -> "blinky.bit"
Extract(filename) ==
    CASE filename = "top.bit"    -> "/tmp/nmigen_top.bit"
      [] filename = "blinky.bit" -> "/tmp/nmigen_blinky.bit"

\* os.environ.get(key, default)
EnvironGet(env, key, default) ==
    IF key \in DOMAIN env THEN env[key] ELSE default

\* subprocess.check_call(argv) with the process exiting with `status`:
\* returns for status 0 and raises CalledProcessError otherwise.
check_call_IgnoreStatus(argv, status) ==
    [kind |-> "return", value |-> <<"None">>]

check_call(argv, status) ==
    IF status # 0
        THEN [kind |-> "raise", value |-> <<"CalledProcessError">>]
        ELSE [kind |-> "return", value |-> <<"None">>]

\* The argv of logicbone.py 228.
DfuArgv_NoReset(dfu_util, bitstream_filename) ==
    <<dfu_util, "-d", "1d50:615d", "-a", "0", "-D", bitstream_filename>>

DfuArgv(dfu_util, bitstream_filename) ==
    <<dfu_util, "-d", "1d50:615d", "-a", "0", "-R", "-D", bitstream_filename>>

\* LogicbonePlatform.toolchain_program (logicbone.py 225-228); `status` is
\* the exit status of the process it starts.
ToolchainProgram(name, status) ==
    LET dfu_util == EnvironGet(environ, "DFU_UTIL", "dfu-util")
        bitstream_filename == Extract(BitName(name))
        argv == DfuArgv(dfu_util, bitstream_filename)
    IN
    /\ tcCall' = [op |-> "toolchain_program", name |-> name,
                  kwargs |-> EmptyDict, status |-> status, environ |-> environ]
    /\ spawned' = << argv >>
    /\ tcOutcome' = check_call(argv, status)
    /\ parentCalls' = << >>
    /\ UNCHANGED <<environ, platformVars, clockVars>>

\* The caller's environment: DFU_UTIL is exported or unset between calls.
DfuUtilValues == {"/opt/dfu-util/bin/dfu-util", "dfu-util-static"}
Setenv(value) ==
    /\ environ' = [k \in {"DFU_UTIL"} |-> value]
    /\ environ' # environ
    /\ UNCHANGED <<tcCall, tcOutcome, parentCalls, spawned, platformVars, clockVars>>
Unsetenv ==
    /\ environ # EmptyDict
    /\ environ' = EmptyDict
    /\ UNCHANGED <<tcCall, tcOutcome, parentCalls, spawned, platformVars, clockVars>>

NoToolchainCall == [op |-> "none", name |-> "", kwargs |-> EmptyDict, status |-> 0,
                    environ |-> EmptyDict]

InitToolchain ==
    /\ environ = EmptyDict
    /\ tcCall = NoToolchainCall
    /\ tcOutcome = NoOutcome
    /\ parentCalls = << >>
    /\ spawned = << >>

NextToolchain ==
    \/ \E name \in DesignNames, keys \in SUBSET KwargKeys :
         \E kwargs \in [keys -> KwargValues] : ToolchainPrepare(name, kwargs)
    \/ \E name \in DesignNames, status \in 0 .. MaxExitStatus :
         ToolchainProgram(name, status)
    \/ \E value \in DfuUtilValues : Setenv(value)
    \/ Unsetenv

(***************************************************************************)
(* The clock domain generator, logicbone.py 35-135: one EHXPLLL instance   *)
(* and the combinational wiring of the four domains.  Time advances in     *)
(* cycles of the PLL's VCO.                                                *)
(***************************************************************************)
\* Divider parameters of the EHXPLLL instance.
CLKI_DIV   == 5
CLKFB_DIV  == 6
CLKOP_DIV  == 16
CLKOS_DIV  == 10
CLKOS2_DIV == 10
CLKOS3_DIV == 40

\* Synthesis attributes of the instance, in MHz.
FREQUENCY_PIN_CLKI   == 25
FREQUENCY_PIN_CLKOP  == 48
FREQUENCY_PIN_CLKOS  == 48
FREQUENCY_PIN_CLKOS2 == 12

\* Clock(25e6) of the refclk resource, in MHz.
RefMHz == 25

PllPins == {"CLKI", "CLKOP", "CLKOS", "CLKOS2", "CLKOS3"}
Domains == {"sync", "usb", "usb_io", "fast"}

\* An output divider: the pin is high for the first half of every `div`
\* VCO cycles.
Divided(v, div) == IF (v % div) * 2 < div THEN 1 ELSE 0

\* The reference input while the loop is in lock.  The feedback path is
\* CLKOP (p_FEEDBK_PATH), so the phase detector holds CLKI / CLKI_DIV equal
\* to CLKOP / CLKFB_DIV: CLKI_DIV periods of CLKI last CLKFB_DIV periods of
\* CLKOP, which are CLKFB_DIV * CLKOP_DIV cycles of the VCO.  The level is
\* the parity of the number of half periods of CLKI elapsed.
Reference(v) ==
    IF ((v * 2 * CLKI_DIV) \div (CLKFB_DIV * CLKOP_DIV)) % 2 = 0 THEN 1 ELSE 0

\* After this many VCO cycles every pin is back in phase.
PatternLen == CLKI_DIV * CLKFB_DIV * CLKOP_DIV

\* Levels of the PLL's pins at VCO cycle v.
PinLevels(v) ==
    [p \in PllPins |->
        CASE p = "CLKI"   -> Reference(v)
          [] p = "CLKOP"  -> Divided(v, CLKOP_DIV)
          [] p = "CLKOS"  -> Divided(v, CLKOS_DIV)
          [] p = "CLKOS2" -> Divided(v, CLKOS2_DIV)
          [] p = "CLKOS3" -> Divided(v, CLKOS3_DIV)]

\* o_CLKOS2 = ClockSignal("sync"), o_CLKOS3 = ClockSignal("usb") and the
\* two clock assignments of m.d.comb (logicbone.py 110-111, 126-127).
DomainClocks(p) ==
    LET sync == p["CLKOS2"] IN
    [d \in Domains |->
        CASE d = "sync"   -> sync
          [] d = "usb"    -> p["CLKOS3"]
          [] d = "usb_io" -> sync
          [] d = "fast"   -> sync]

\* The four reset assignments of m.d.comb (logicbone.py 129-132).
DomainResets_UsbNotInverted(lock) ==
    [d \in Domains |-> IF d = "usb" THEN lock ELSE ~lock]

DomainResets(lock) ==
    [d \in Domains |-> ~lock]

NoEdges == [p \in PllPins |-> 0]
Rising(old, new, p) == IF old[p] = 0 /\ new[p] = 1 THEN 1 ELSE 0

\* One cycle of the VCO.  While the PLL is in lock, rising edges are
\* counted over one microsecond of the reference: the count opens on a
\* rising edge of CLKI and closes on the RefMHz-th one after it.
Tick ==
    LET v == (vco + 1) % PatternLen
        p == PinLevels(v)
        counted == [q \in PllPins |-> edges[q] + Rising(pins, p, q)]
    IN
    /\ vco' = v
    /\ pins' = p
    /\ clk' = DomainClocks(p)
    /\ rst' = DomainResets(locked)
    /\ locked' = locked
    /\ IF ~locked \/ window = "closed"
          THEN UNCHANGED <<window, edges>>
       ELSE IF window = "idle"
          THEN /\ window' = IF Rising(pins, p, "CLKI") = 1 THEN "open" ELSE "idle"
               /\ edges' = NoEdges
       ELSE /\ edges' = counted
            /\ window' = IF counted["CLKI"] = RefMHz THEN "closed" ELSE "open"
    /\ UNCHANGED <<platformVars, toolchainVars>>

\* The PLL's LOCK output rises.
Lock ==
    /\ ~locked
    /\ locked' = TRUE
    /\ rst' = DomainResets(TRUE)
    /\ clk' = DomainClocks(pins)
    /\ window' = "idle"
    /\ edges' = NoEdges
    /\ UNCHANGED <<vco, pins, platformVars, toolchainVars>>

\* The PLL loses lock.
Unlock ==
    /\ locked
    /\ locked' = FALSE
    /\ rst' = DomainResets(FALSE)
    /\ clk' = DomainClocks(pins)
    /\ window' = "idle"
    /\ edges' = NoEdges
    /\ UNCHANGED <<vco, pins, platformVars, toolchainVars>>

InitClock ==
    /\ vco = 0
    /\ locked = FALSE
    /\ pins = PinLevels(0)
    /\ clk = DomainClocks(PinLevels(0))
    /\ rst = DomainResets(FALSE)
    /\ window = "idle"
    /\ edges = NoEdges

NextClock == Tick \/ Lock \/ Unlock

(***************************************************************************)
(* Specifications.                                                         *)
(***************************************************************************)
Init == InitPlatform /\ InitToolchain /\ InitClock

SpecPlatform  == Init /\ [][NextPlatform]_vars
SpecToolchain == Init /\ [][NextToolchain]_vars
SpecClock     == Init /\ [][NextClock]_vars

(***************************************************************************)
(* request_optional (SpecPlatform).                                        *)
(***************************************************************************)
Called  == outcome.kind # "none"
Present == HasResource(call.name, call.number)

\* C1: a request_optional call for a resource the platform lacks returns
\* the default argument and raises nothing, whether expected is False or
\* True.
C1_AbsentReturnsDefault ==
    (Called /\ ~Present) =>
        /\ outcome.kind = "return"
        /\ outcome.value = <<"default", call.default>>

\* C2: every request_optional call, in any sequence of calls, for a resource
\* the platform has returns the requested resource, never the default.
C2_PresentReturnsResource ==
    (Called /\ Present) =>
        /\ outcome.kind = "return"
        /\ outcome.value = <<"pins", call.name, call.number>>

\* C3: a request_optional call for a resource the platform lacks logs the
\* skipped resource at warning level when expected is True, and at debug
\* level only when expected is False.
C3_AbsentLogsAtLevel ==
    (Called /\ ~Present) =>
        logged = << [level |-> IF call.expected THEN "WARNING" ELSE "DEBUG",
                     message |-> <<"Skipping resource", call.name, call.number>>] >>

\* The records of the table the platform has registered so far.
Registered == 1 .. added

\* C7 as stated: no two pin resource records of the platform have the same
\* name.
C7_NamesUnique ==
    \A i, j \in Registered :
        resources[i][1] = resources[j][1] => i = j

\* C7 as amended: no two pin resource records of the platform have the same
\* name and the same number.
C7_KeysUnique ==
    \A i, j \in Registered :
        resources[i] = resources[j] => i = j

\* Two records that share a name and differ in number have both been
\* requested, and each was handed out.
C7_Witness ==
    /\ added = Len(resources)
    /\ \E i, j \in DOMAIN resources :
          /\ i # j
          /\ resources[i][1] = resources[j][1]
          /\ {resources[i], resources[j]} \subseteq requested
    /\ outcome.kind = "return"
    /\ outcome.value[1] = "pins"

(***************************************************************************)
(* The toolchain hooks (SpecToolchain).                                    *)
(***************************************************************************)
\* C4: toolchain_program raises when the flashing utility exits with a
\* non-zero status and returns normally only when the status is zero.
C4_ProgramPropagatesFailure ==
    tcCall.op = "toolchain_program" =>
        /\ tcCall.status # 0 => tcOutcome.kind = "raise"
        /\ tcOutcome.kind = "return" => tcCall.status = 0
        /\ tcOutcome.kind \in {"raise", "return"}

C4_Witness ==
    /\ tcCall.op = "toolchain_program"
    /\ tcCall.status # 0
    /\ tcOutcome.kind = "raise"
    /\ Len(spawned) = 1

\* C5: for every set of keyword arguments toolchain_prepare returns the
\* parent's result without raising, having called the parent once with the
\* caller's arguments laid over the default ecppack_opts.
C5_PrepareMergesKwargs ==
    tcCall.op = "toolchain_prepare" =>
        /\ tcOutcome.kind = "return"
        /\ Len(parentCalls) = 1
        /\ parentCalls[1] =
              [k \in {"ecppack_opts"} \cup DOMAIN tcCall.kwargs |->
                  IF k \in DOMAIN tcCall.kwargs
                      THEN tcCall.kwargs[k]
                      ELSE "--compress --spimode qspi --freq 38.8"]

\* C6: toolchain_program starts exactly one process: the value of DFU_UTIL
\* when it is set and dfu-util otherwise, with the arguments -d 1d50:615d
\* -a 0 -R -D and the file the "<name>.bit" bitstream was extracted to.
C6_ProgramRunsDfuUtil ==
    tcCall.op = "toolchain_program" =>
        /\ Len(spawned) = 1
        /\ spawned[1] =
              << IF "DFU_UTIL" \in DOMAIN tcCall.environ
                     THEN tcCall.environ["DFU_UTIL"]
                     ELSE "dfu-util",
                 "-d", "1d50:615d", "-a", "0", "-R", "-D",
                 Extract(BitName(tcCall.name)) >>

C6_Witness ==
    /\ tcCall.op = "toolchain_program"
    /\ "DFU_UTIL" \in DOMAIN tcCall.environ
    /\ Len(spawned) = 1
    /\ spawned[1][1] = tcCall.environ["DFU_UTIL"]
    /\ spawned[1][8] = "/tmp/nmigen_blinky.bit"

(***************************************************************************)
(* The clock domain generator (SpecClock).                                 *)
(***************************************************************************)
\* C8: the reset of each of the four domains is the negation of LOCK; the
\* usb_io and fast clocks equal the sync clock, which is the PLL's CLKOS2,
\* and the usb clock is another PLL output, CLKOS3.
C8_DomainsFollowLock ==
    /\ \A d \in Domains : rst[d] = ~locked
    /\ clk["usb_io"] = clk["sync"]
    /\ clk["fast"] = clk["sync"]
    /\ clk["sync"] = pins["CLKOS2"]
    /\ clk["usb"] = pins["CLKOS3"]

\* In lock and running: every domain is out of reset, and the usb clock is
\* at a level the other three are not.
C8_Witness ==
    /\ locked
    /\ vco > 0
    /\ \A d \in Domains : ~rst[d]
    /\ clk["usb"] # clk["sync"]
    /\ clk["fast"] = clk["sync"]

\* C9: over one microsecond of the 25 MHz reference CLKOS2 shows 48 rising
\* edges and CLKOS3 12, and the FREQUENCY_PIN_CLKI, FREQUENCY_PIN_CLKOP and
\* FREQUENCY_PIN_CLKOS2 attributes each equal the number of rising edges of
\* their pin.
C9_FrequenciesAsStated ==
    window = "closed" =>
        /\ edges["CLKOS2"] = 48
        /\ edges["CLKOS3"] = 12
        /\ edges["CLKI"] = FREQUENCY_PIN_CLKI
        /\ edges["CLKOP"] = FREQUENCY_PIN_CLKOP
        /\ edges["CLKOS2"] = FREQUENCY_PIN_CLKOS2

====
